---- MODULE Spec2Model ----
(***************************************************************************)
(* Simulated annealing for the travelling salesman problem: the pure       *)
(* Python engine (src/src/tsp/py), its kernels and its statistics proxy.   *)
(*                                                                         *)
(* Conventions.  A route is a sequence of city numbers 0..N-1; the Python  *)
(* position p of a list is the index p+1 of the sequence.  Real numbers    *)
(* are exact rationals <<num, den>> with den > 0.  Distances are computed  *)
(* from integer coordinates whose pairwise distances are integers.  A      *)
(* uniform draw u of the engine is represented by w = -ln(u).              *)
(***************************************************************************)
EXTENDS Integers, Sequences, FiniteSets, TLC

\* ------------------------------------------------------------------ bounds
\* largest n_iter of a configuration
MaxIter == 3
\* largest stop_after of a configuration
MaxStopAfter == 1
\* number of run() calls made on the objects
MaxRuns == 2
\* the engine's uniform draws are u = e^(-w), w in 1..MaxNegLogU
MaxNegLogU == 2
\* the mixing kernel's uniform draws are u = b / MixGrid, b in 0..MixGrid-1
MixGrid == 5
\* most redraws of RandomWalkKernel.sample before the permutation differs
MaxRetries == 1
\* longest route handed to a kernel on its own
MaxLen == 4
\* number of to_jl() calls made on the wrappers
MaxJlCalls == 3

\* ------------------------------------------------------- program constants
\* _EPS = np.finfo(np.float64).eps = 2^-52 is the rational 1 / EpsDen; the
\* model keeps it a negative power of two far below every temperature and
\* probability it is added to, within the 32-bit integers of the model checker.
EpsDen == 1024
\* exponential_cooling_schedule(T_0, rho) as the configurations construct
\* it: T_0 = ExpT0 and rho = RhoNum / RhoDen.  With the defaults 100 and 0.99
\* no candidate is rejected within MaxIter iterations.
ExpT0 == 4
RhoNum == 1
RhoDen == 2

\* ----------------------------------------------------------------- helpers
Min(a, b) == IF a <= b THEN a ELSE b
Max(a, b) == IF a >= b THEN a ELSE b
Abs(a) == IF a >= 0 THEN a ELSE -a

pow[b \in Int, e \in Nat] == IF e = 0 THEN 1 ELSE b * pow[b, e - 1]
Pow(b, e) == pow[b, e]

\* rationals <<n, d>>, d > 0
gcd[a \in Nat, b \in Nat] == IF b = 0 THEN a ELSE gcd[b, a % b]
Gcd(a, b) == gcd[a, b]
Rat == Int \X Nat
ratNorm[a \in Rat] ==
    LET g == Gcd(Abs(a[1]), a[2])
    IN  <<a[1] \div g, a[2] \div g>>
RatNorm(a) == ratNorm[a]
RatLess(a, b) == a[1] * b[2] < b[1] * a[2]
RatLeq(a, b) == a[1] * b[2] <= b[1] * a[2]
RatEq(a, b) == a[1] * b[2] = b[1] * a[2]
ratAdd[a \in Rat, b \in Rat] ==
    LET g == Gcd(a[2], b[2])
    IN  RatNorm(<<a[1] * (b[2] \div g) + b[1] * (a[2] \div g), (a[2] \div g) * b[2]>>)
RatAdd(a, b) == ratAdd[a, b]
\* a / b for b > 0
ratDiv[a \in Rat, b \in Rat] ==
    LET x == RatNorm(<<a[1], b[1]>>)
        y == RatNorm(<<b[2], a[2]>>)
    IN  RatNorm(<<x[1] * y[1], x[2] * y[2]>>)
RatDiv(a, b) == ratDiv[a, b]
Int2Rat(n) == <<n, 1>>

\* float64 arithmetic, scaled: a float is a rational m * 2^e whose mantissa m
\* has as many bits as make _EPS = 1 / EpsDen the gap between 1 and the next
\* float, and every operation rounds its exact result to the nearest float,
\* ties to the even mantissa.  flScale finds the power of two up / down that
\* brings x > 0 into [EpsDen, 2 * EpsDen).
flScale[x \in Rat, up \in Nat, down \in Nat] ==
    IF x[1] * up >= 2 * EpsDen * x[2] * down THEN flScale[x, up, 2 * down]
    ELSE IF x[1] * up < EpsDen * x[2] * down THEN flScale[x, 2 * up, down]
    ELSE <<up, down>>
fl[x \in Rat] ==
    IF x[1] = 0 THEN x
    ELSE LET s == flScale[x, 1, 1]
             num == x[1] * s[1]
             den == x[2] * s[2]
             q == num \div den
             r2 == 2 * (num % den)
             m == IF r2 > den \/ (r2 = den /\ q % 2 = 1) THEN q + 1 ELSE q
         IN  RatNorm(<<m * s[2], s[1]>>)
Fl(x) == fl[RatNorm(x)]
FlAdd(a, b) == Fl(RatAdd(a, b))
FlDiv(a, b) == Fl(RatDiv(a, b))
\* _EPS
EPS == <<1, EpsDen>>

\* Python list helpers on sequences (positions are 0-based)
At(l, p) == l[p + 1]
\* l[a:b] for 0 <= a, b
Slice(l, a, b) == SubSeq(l, a + 1, Min(b, Len(l)))
\* l[hi:lo:-1] for hi >= lo >= -1 read as "down to position lo + 1"
SliceDown(l, hi, lo) == [p \in 1..(hi - lo) |-> At(l, hi - (p - 1))]
\* l.pop(i) leaves this list
PopRest(l, i) == Slice(l, 0, i) \o Slice(l, i + 1, Len(l))
\* l.insert(j, x), j >= 0: a position beyond the end appends
Insert(l, j, x) == Slice(l, 0, Min(j, Len(l))) \o <<x>> \o Slice(l, Min(j, Len(l)), Len(l))

IsPermutation(r, n) ==
    /\ Len(r) = n
    /\ \A c \in 0..(n - 1) : Cardinality({p \in 1..n : r[p] = c}) = 1

Orderings(n) == {r \in [1..n -> 0..(n - 1)] : IsPermutation(r, n)}

\* ------------------------------------------------------------------ cities
\* the square root of a perfect square
Sqrt(n) == CHOOSE s \in 0..n : s * s = n

\* distance_matrix(coords): the Euclidean distances of the points
distance_matrix(points) ==
    [a \in 0..(Len(points) - 1), b \in 0..(Len(points) - 1) |->
        LET p == points[a + 1]
            q == points[b + 1]
        IN  Sqrt((p.x - q.x) * (p.x - q.x) + (p.y - q.y) * (p.y - q.y))]

\* distance_matrix(coords) raises ValueError when there is no point: coords
\* is then a 1-D array and scipy.spatial.distance_matrix unpacks its shape
\* into two numbers
distance_matrix_raises(points) == Len(points) = 0

\* Cities(points), with the cached property dist_matrix
Cities(points) == [points |-> points, dist_matrix |-> distance_matrix(points)]

\* Two city sets: a 3 x 4 rectangle listed so that the identity tour (16) is
\* neither the shortest (14) nor the longest (18), and a 3-4-5 triangle.
Rectangle == << [x |-> 0, y |-> 0], [x |-> 3, y |-> 0], [x |-> 0, y |-> 4], [x |-> 3, y |-> 4] >>
Triangle == << [x |-> 0, y |-> 0], [x |-> 3, y |-> 0], [x |-> 0, y |-> 4] >>
CitySets == {Cities(Rectangle), Cities(Triangle)}

\* deque(r).rotate(-1): the first element moves to the end
RotateLeft(r) == IF r = <<>> THEN r ELSE Tail(r) \o <<Head(r)>>

sum[l \in Seq(Int)] == IF l = <<>> THEN 0 ELSE Head(l) + sum[Tail(l)]
SumList(l) == sum[l]

\* Cities.total_distance zipping r with r[1:]: no edge back to the first city
total_distance_Open(self, r) ==
    LET rest == IF r = <<>> THEN r ELSE Tail(r)
        matrix == self.dist_matrix
    IN  SumList([p \in 1..Len(rest) |-> matrix[r[p], rest[p]]])

\* Cities.total_distance(route)
total_distance(self, r) ==
    LET rot_route == RotateLeft(r)
        matrix == self.dist_matrix
    IN  SumList([p \in 1..Len(r) |-> matrix[r[p], rot_route[p]]])

\* the legacy SimulatedAnnealingTSP.dist_route(route), self being the engine
\* with its dist_matrix field
dist_route(self, route) ==
    LET rot_route == RotateLeft(route)
    IN  SumList([p \in 1..Len(route) |-> self.dist_matrix[route[p], rot_route[p]]])

\* Cities.total_distance raises where it reads self.dist_matrix
total_distance_raises(self) == distance_matrix_raises(self.points)

\* Cities.__len__
Cities_len(self) == Len(self.points)

\* ----------------------------------------------------------------- kernels
\* l[i], l[j] = l[j], l[i]: both items are read before either is stored
SwapItems(l, i, j) ==
    LET li == At(l, i)
        lj == At(l, j)
        stored_i == [l EXCEPT ![i + 1] = lj]
    IN  [stored_i EXCEPT ![j + 1] = li]

\* SwapKernel._sample without the copy: new_route_list is route.route itself
Swap_sample_heap_NoCopy(route, i, j) ==
    LET heap0 == [a \in {"route.route"} |-> route]
        new_route_list == "route.route"
        heap1 == [heap0 EXCEPT ![new_route_list] = SwapItems(@, i, j)]
    IN  [arg |-> heap1["route.route"], new |-> heap1[new_route_list]]

\* SwapKernel._sample(route, i, j): the lists it leaves, the one inside the
\* argument (arg) and the one inside the Route it returns (new).  copy.copy
\* makes a second list of the same items and the exchange is done on it.
Swap_sample_heap(route, i, j) ==
    LET heap0 == [a \in {"route.route", "copy"} |-> route]
        new_route_list == "copy"
        heap1 == [heap0 EXCEPT ![new_route_list] = SwapItems(@, i, j)]
    IN  [arg |-> heap1["route.route"], new |-> heap1[new_route_list]]

\* the Route SwapKernel._sample(route, i, j) returns
Swap_sample(route, i, j) == Swap_sample_heap(route, i, j).new

\* ReversionKernel._sample with the middle slice stopping one position early
Reversion_sample_ShortSlice(route, i0, j0) ==
    LET i == Min(i0, j0)
        j == Max(i0, j0)
    IN  IF i = 0
        THEN SliceDown(route, j, -1) \o Slice(route, j + 1, Len(route))
        ELSE Slice(route, 0, i) \o SliceDown(route, j, i) \o Slice(route, j + 1, Len(route))

\* ReversionKernel._sample without its i == 0 branch: r[j:-1:-1] is empty
Reversion_sample_NoPrefixBranch(route, i0, j0) ==
    LET i == Min(i0, j0)
        j == Max(i0, j0)
    IN  Slice(route, 0, i)
        \o (IF i = 0 THEN <<>> ELSE SliceDown(route, j, i - 1))
        \o Slice(route, j + 1, Len(route))

\* ReversionKernel._sample(route, i, j)
Reversion_sample(route, i0, j0) ==
    LET i == Min(i0, j0)
        j == Max(i0, j0)
    IN  IF i = 0
        THEN SliceDown(route, j, -1) \o Slice(route, j + 1, Len(route))
        ELSE Slice(route, 0, i) \o SliceDown(route, j, i - 1) \o Slice(route, j + 1, Len(route))

\* InsertionKernel._sample inserting at j + 1
Insertion_sample_heap_OneLater(route, i, j) ==
    LET heap0 == [a \in {"route.route", "copy"} |-> route]
        new_route_list == "copy"
        heap1 == [heap0 EXCEPT ![new_route_list] = Insert(PopRest(@, i), j + 1, At(@, i))]
    IN  [arg |-> heap1["route.route"], new |-> heap1[new_route_list]]

\* InsertionKernel._sample without the copy: pop and insert on route.route
Insertion_sample_heap_NoCopy(route, i, j) ==
    LET heap0 == [a \in {"route.route"} |-> route]
        new_route_list == "route.route"
        heap1 == [heap0 EXCEPT ![new_route_list] = Insert(PopRest(@, i), j, At(@, i))]
    IN  [arg |-> heap1["route.route"], new |-> heap1[new_route_list]]

\* InsertionKernel._sample(route, i, j): the lists it leaves.  pop(i) is
\* evaluated first, then insert(j, ...) on the list without that item.
Insertion_sample_heap(route, i, j) ==
    LET heap0 == [a \in {"route.route", "copy"} |-> route]
        new_route_list == "copy"
        heap1 == [heap0 EXCEPT ![new_route_list] = Insert(PopRest(@, i), j, At(@, i))]
    IN  [arg |-> heap1["route.route"], new |-> heap1[new_route_list]]

\* the Route InsertionKernel._sample(route, i, j) returns
Insertion_sample(route, i, j) == Insertion_sample_heap(route, i, j).new

\* ReversionKernel._sample(route, i, j): the lists it leaves; r names
\* route.route and is only sliced, new_r is built by concatenation
Reversion_sample_heap(route, i, j) ==
    [arg |-> route, new |-> Reversion_sample(route, i, j)]

\* rng.choice(a, size=size, replace=False) for an int a raises ValueError:
\* "a must be a positive integer unless no samples are taken", "negative
\* dimensions are not allowed", "Cannot take a larger sample than
\* population when replace is False"
Choice_raises(a, size) ==
    \/ a <= 0 /\ size # 0
    \/ size < 0
    \/ size > a

\* that draw without the + 1: two distinct positions of 0..n-1
ChoicePairs_FromZero(n) == {d \in (0..(n - 1)) \X (0..(n - 1)) : d[1] # d[2]}

\* rng.choice(n, size=2, replace=False) + 1: two distinct positions of 1..n
ChoicePairs(n) == {d \in (1..n) \X (1..n) : d[1] # d[2]}

\* rng.choice(n, size=n, replace=False) + 1: an ordering of the positions 1..n
ChoicePerms(n) == {[p \in 1..n |-> q[p] + 1] : q \in Orderings(n)}

\* that pass with position 0 drawn along with the others: the first city
\* goes behind them
RandomWalk_pass_FirstMoves(route, perm) ==
    [p \in 1..Len(perm) |-> At(route, perm[p])] \o Slice(route, 0, 1)

\* RandomWalkKernel.sample, one pass of the loop body with the ordering perm
RandomWalk_pass(route, perm) ==
    Slice(route, 0, 1) \o [p \in 1..Len(perm) |-> At(route, perm[p])]

\* ---------------------------------------------------------- mixing kernel
\* MixingKernel.__init__: probs_arr = (final_probs + _EPS * len) / sum
Mixing_probs_arr(probs) ==
    LET n == Len(probs)
        floored == [i \in 1..n |-> FlAdd(Fl(probs[i]), Fl(<<n, EpsDen>>))]
        RECURSIVE Total(_)
        Total(i) == IF i = 0 THEN Int2Rat(0) ELSE FlAdd(Total(i - 1), floored[i])
    IN  [i \in 1..n |-> FlDiv(floored[i], Total(n))]

\* max(candidates, key=candidates.get): the first key, in insertion order,
\* whose value no other key exceeds
ArgMax(probs_arr, candidates) ==
    CHOOSE i \in candidates :
        /\ \A j \in candidates : RatLeq(probs_arr[j], probs_arr[i])
        /\ \A j \in candidates : RatEq(probs_arr[j], probs_arr[i]) => i <= j

\* MixingKernel.__init__: the loop that orders the indices
RECURSIVE Mixing_indices(_, _)
Mixing_indices(probs_arr, candidates) ==
    IF candidates = {} THEN <<>>
    ELSE LET argmax_candidate == ArgMax(probs_arr, candidates)
         IN  <<argmax_candidate>> \o Mixing_indices(probs_arr, candidates \ {argmax_candidate})

\* np.concatenate([[0.], np.cumsum(probs)])
Cumsum0(probs) ==
    LET RECURSIVE Run(_)
        Run(i) == IF i = 0 THEN Int2Rat(0) ELSE FlAdd(Run(i - 1), probs[i])
    IN  [i \in 1..(Len(probs) + 1) |-> Run(i - 1)]

\* MixingKernel.__init__: final_kernels and final_probs when probs is None
\* and kernels is a list of (prob, kernel) pairs
Mixing_final_pairs(kernels) ==
    [kernels |-> [i \in 1..Len(kernels) |-> kernels[i][2]],
     probs |-> [i \in 1..Len(kernels) |-> kernels[i][1]]]

\* MixingKernel(kernels, probs): the fields the constructor leaves
MixingKernel(kernels, probs) ==
    LET probs_arr == Mixing_probs_arr(probs)
        indices == Mixing_indices(probs_arr, 1..Len(probs))
        sorted == [i \in 1..Len(indices) |-> probs_arr[indices[i]]]
    IN  [kind |-> "mixing",
         probs |-> sorted,
         kernels |-> [i \in 1..Len(indices) |-> kernels[indices[i]]],
         rngs |-> [i \in 1..Len(indices) |-> indices[i]],
         cumsum_p |-> Cumsum0(sorted),
         len_kernels |-> Len(kernels)]

\* MixingKernel(pairs), probs being None
MixingKernelPairs(pairs) ==
    LET final == Mixing_final_pairs(pairs)
    IN  MixingKernel(final.kernels, final.probs)

\* MixingKernel._choose_kernel(u): the position in self.kernels, 0 for None
Mixing_choose_kernel(kernel, u) ==
    IF RatEq(u, Int2Rat(1)) THEN Len(kernel.kernels)
    ELSE LET hits == {i \in 1..kernel.len_kernels :
                        /\ RatLeq(kernel.cumsum_p[i], u)
                        /\ RatLess(u, kernel.cumsum_p[i + 1])}
         IN  IF hits = {} THEN 0 ELSE CHOOSE i \in hits : \A j \in hits : i <= j

\* -------------------------------------------------------------- kernel set
SwapKernel == [kind |-> "swap"]
ReversionKernel == [kind |-> "reversion"]
InsertionKernel == [kind |-> "insertion"]
RandomWalkKernel == [kind |-> "random_walk"]
\* the mixing kernel of the test suite, and one over a random walk
MixingTest ==
    MixingKernel(<<SwapKernel, ReversionKernel, InsertionKernel>>, << <<3, 10>>, <<2, 10>>, <<5, 10>> >>)
MixingWalk == MixingKernel(<<RandomWalkKernel, SwapKernel>>, << <<1, 2>>, <<1, 2>> >>)
Kernels == {SwapKernel, ReversionKernel, InsertionKernel, RandomWalkKernel, MixingTest}

\* the generators: the engine's own, the kernel's, the mixing sub-kernels'
SubGen == <<"sub1", "sub2", "sub3">>
GenIds == {"sa", "kernel", "sub1", "sub2", "sub3"}

\* RandomWalkKernel.sample: the while loop fed the orderings perms, one per
\* pass; used counts the passes made, and the loop is left when the list
\* differs from the input (done) or the orderings run out
RECURSIVE RandomWalk_loop(_, _, _, _)
RandomWalk_loop(current_route_list, new_route_list, perms, used) ==
    IF new_route_list # current_route_list
    THEN [route |-> new_route_list, used |-> used, done |-> TRUE]
    ELSE IF perms = <<>>
    THEN [route |-> new_route_list, used |-> used, done |-> FALSE]
    ELSE RandomWalk_loop(current_route_list,
                         RandomWalk_pass(current_route_list, Head(perms)),
                         Tail(perms), used + 1)

RandomWalk_sample(route, perms) == RandomWalk_loop(route, route, perms, 0)

\* the orderings a RandomWalkKernel.sample call that returns can take for a
\* route of n cities: the loop draws one more after each of pending, which
\* left the list unchanged, and at most passes more
RECURSIVE RandomWalk_draws(_, _, _)
RandomWalk_draws(n, pending, passes) ==
    IF passes = 0 \/ pending = {} THEN {}
    ELSE LET drawn == {Append(ps, perm) : ps \in pending, perm \in ChoicePerms(n - 1)}
             returns == {ps \in drawn : RandomWalk_sample([p \in 1..n |-> p - 1], ps).done}
         IN  returns \cup RandomWalk_draws(n, drawn \ returns, passes - 1)

\* what the generator of a Swap/Reversion/Insertion/RandomWalk kernel can
\* hand to one sample(route) call that returns
BaseDraws(kernel, n) ==
    IF kernel.kind = "random_walk" THEN RandomWalk_draws(n, {<<>>}, MaxRetries + 1)
    ELSE ChoicePairs(n - 1)

\* sample(route) of a Swap/Reversion/Insertion/RandomWalk kernel on draw d
Base_sample(kernel, route, d) ==
    CASE kernel.kind = "swap" -> Swap_sample(route, d[1], d[2])
      [] kernel.kind = "reversion" -> Reversion_sample(route, d[1], d[2])
      [] kernel.kind = "insertion" -> Insertion_sample(route, d[1], d[2])
      [] kernel.kind = "random_walk" -> RandomWalk_sample(route, d).route

\* the list inside the argument after that call
Base_sample_arg(kernel, route, d) ==
    CASE kernel.kind = "swap" -> Swap_sample_heap(route, d[1], d[2]).arg
      [] kernel.kind = "reversion" -> Reversion_sample_heap(route, d[1], d[2]).arg
      [] kernel.kind = "insertion" -> Insertion_sample_heap(route, d[1], d[2]).arg
      [] kernel.kind = "random_walk" -> route

\* sample(route) of such a kernel raises in its rng.choice call, for a
\* route of n cities
Base_raises(kernel, n) ==
    IF kernel.kind = "random_walk" THEN Choice_raises(n - 1, n - 1)
    ELSE Choice_raises(n - 1, 2)

\* RandomWalkKernel.sample(route) never leaves its while loop: rng.choice
\* does not raise and every pass ends with new_route_list equal to
\* current_route_list, whatever ordering it draws
Base_loops(kernel, route) ==
    /\ kernel.kind = "random_walk"
    /\ ~Base_raises(kernel, Len(route))
    /\ \A perm \in ChoicePerms(Len(route) - 1) : RandomWalk_pass(route, perm) = route

\* the number of draws that call takes from the kernel's generator
Base_used(kernel, d) == IF kernel.kind = "random_walk" THEN Len(d) ELSE 1

\* MixingKernel._sample(route, u)
Mixing_sample(kernel, route, u, d) ==
    Base_sample(kernel.kernels[Mixing_choose_kernel(kernel, u)], route, d)

\* the uniform draws u of MixingKernel.sample (none for the other kernels)
MixingDraws(kernel) ==
    IF kernel.kind = "mixing" THEN {<<b, MixGrid>> : b \in 0..(MixGrid - 1)} ELSE {<<0, 1>>}

\* the kernel whose _sample does the move, and its generator
Mover(kernel, u) ==
    IF kernel.kind = "mixing" THEN kernel.kernels[Mixing_choose_kernel(kernel, u)] ELSE kernel
MoverGen(kernel, u) ==
    IF kernel.kind = "mixing" THEN SubGen[kernel.rngs[Mixing_choose_kernel(kernel, u)]] ELSE "kernel"

\* kernel.sample(route) on the draws u (mixing only) and d
Kernel_sample(kernel, route, u, d) ==
    IF kernel.kind = "mixing" THEN Mixing_sample(kernel, route, u, d)
    ELSE Base_sample(kernel, route, d)

\* the list inside the argument after kernel.sample(route)
Kernel_sample_arg(kernel, route, u, d) ==
    Base_sample_arg(Mover(kernel, u), route, d)

\* the generators that call draws from: a mixing kernel draws u from its
\* own, and the kernel that moves draws d from its own
Kernel_rng(kernel, u) ==
    (IF kernel.kind = "mixing" THEN {"kernel"} ELSE {}) \cup {MoverGen(kernel, u)}

\* the routes kernel.sample(route) can return
Kernel_outputs(kernel, route) ==
    UNION {{Kernel_sample(kernel, route, u, d) : d \in BaseDraws(Mover(kernel, u), Len(route))} :
             u \in MixingDraws(kernel)}

\* what kernel.sample returns for route1 and for route2 on the same draws
Kernel_outputs_both(kernel, route1, route2) ==
    UNION {{<<Kernel_sample(kernel, route1, u, d), Kernel_sample(kernel, route2, u, d)>> :
              d \in BaseDraws(Mover(kernel, u), Len(route1))} :
             u \in MixingDraws(kernel)}

\* ------------------------------------------------------- cooling schedules
\* exponential_cooling_schedule(T_0, rho)(k)
exponential_cooling_schedule(k) == RatNorm(<<Pow(RhoNum, k) * ExpT0, Pow(RhoDen, k)>>)
\* logarithmic_cooling_schedule()(k): with the default k_0 = 1 the numerator
\* T_0 * ln(k_0) is 0, and so is the quotient for every k >= 1
logarithmic_cooling_schedule(k) == Int2Rat(0)
Schedules == {"exponential", "logarithmic"}
Temperature(schedule, k) ==
    IF schedule = "exponential" THEN exponential_cooling_schedule(k)
    ELSE logarithmic_cooling_schedule(k)

\* np.exp(x), kept symbolic
Exp(x) == [exp |-> x]
\* u < np.exp(x) for the draw u = e^(-w): the logarithm is increasing
DrawBelowExp(w, x) == RatLess(Int2Rat(-w), x)

\* ------------------------------------------------------------------- state
VARIABLES
    \* SimulatedAnnealingTSP fields
    cities, kernel, n_iter, temperature, early_stop, stop_after, seed,
    \* SAStatsProxy fields
    log_acceptance_probs, n_accept, acceptance_ratio, values, accept_prob,
    \* the run() call on the objects: its locals, the generators, its record
    run,
    \* the same for a second, equal engine that is run without the proxy
    ref,
    \* the run() calls made so far: the object of each
    calls,
    \* a kernel used on its own: the caller's route and what sample returned
    k_route, k_new_route,
    \* the record of that call: the operation, its arguments, how it ended
    k_call,
    \* a mixing kernel on its own: the (prob, kernel) pairs it was built
    \* from, the u handed to _choose_kernel and the position it returned
    m_input, m_u, m_chosen,
    \* the legacy engine of src/tsp/sa.py with the caller's distance matrix,
    \* and a JuliaWrapper instance
    legacy, jl

config == <<cities, kernel, n_iter, temperature, early_stop, stop_after, seed>>
stats == <<log_acceptance_probs, n_accept, acceptance_ratio, values, accept_prob>>
engine == <<run, ref, calls>>
sampling == <<k_route, k_new_route, k_call, m_input, m_u, m_chosen>>
others == <<legacy, jl>>
vars == <<config, stats, engine, sampling, others>>

None == "None"

\* no legacy engine constructed, no JuliaWrapper instance
NoLegacy == [pc |-> "none"]
NoJl == [pc |-> "none"]
NoOthers ==
    /\ legacy = NoLegacy
    /\ jl = NoJl

\* the proxy's fields as one value
Stats ==
    [log_acceptance_probs |-> log_acceptance_probs, n_accept |-> n_accept,
     acceptance_ratio |-> acceptance_ratio, values |-> values, accept_prob |-> accept_prob]

\* ---------------------------------------------------- SimulatedAnnealingTSP
\* __post_init__ and the rng property: the generator of the acceptance draws
Sa_rng == IF seed # None THEN "sa" ELSE "kernel"

Sa_n_iter == n_iter

\* initial_route()
Sa_initial_route ==
    LET route == [p \in 1..Cities_len(cities) |-> p - 1]
    IN  [route |-> route, val |-> total_distance(cities, route)]

\* sample(route), new_route being what self.kernel.sample(route) returns
Sa_sample(new_route) == [route |-> new_route, val |-> total_distance(cities, new_route)]

\* acceptance_probability reading the temperature of the iteration before
Sa_acceptance_probability_PrevTemp(current_val, new_val, k) ==
    LET gap == new_val - current_val
    IN  IF gap <= 0 THEN Int2Rat(0)
        ELSE RatDiv(Int2Rat(-gap), RatAdd(Temperature(temperature, k - 1), EPS))

\* acceptance_probability without the minus sign in front of gap
Sa_acceptance_probability_NoMinus(current_val, new_val, k) ==
    LET gap == new_val - current_val
    IN  IF gap <= 0 THEN Int2Rat(0)
        ELSE RatDiv(Int2Rat(gap), RatAdd(Temperature(temperature, k), EPS))

\* acceptance_probability(current_val, new_val, k)
Sa_acceptance_probability(current_val, new_val, k) ==
    LET gap == new_val - current_val
    IN  IF gap <= 0 THEN Int2Rat(0)
        ELSE RatDiv(Int2Rat(-gap), RatAdd(Temperature(temperature, k), EPS))

\* stop_criteria that forgets the early_stop flag
Sa_stop_criteria_NoFlag(stop_counter) == stop_counter > stop_after

\* the criterion met already at the threshold
Sa_stop_criteria_AtLeast(stop_counter) == early_stop /\ stop_counter >= stop_after

\* stop_criteria(stop_counter)
Sa_stop_criteria(stop_counter) == early_stop /\ stop_counter > stop_after

\* ------------------------------------------------------------- SAStatsProxy
\* __post_init__ that clears the lists and keeps the counter
Proxy_post_init_KeepsCount ==
    [log_acceptance_probs |-> <<>>, n_accept |-> n_accept, acceptance_ratio |-> <<>>,
     values |-> <<>>, accept_prob |-> <<>>]

\* __post_init__
Proxy_post_init ==
    [log_acceptance_probs |-> <<>>, n_accept |-> 0, acceptance_ratio |-> <<>>,
     values |-> <<>>, accept_prob |-> <<>>]

\* the delegates
Proxy_n_iter == Sa_n_iter
Proxy_rng == Sa_rng
Proxy_initial_route == Sa_initial_route
Proxy_sample(new_route) == Sa_sample(new_route)
Proxy_acceptance_probability(current_val, new_val, k) ==
    Sa_acceptance_probability(current_val, new_val, k)
\* a stop_criteria of its own, stopping at stop_after as the older engine did
Proxy_stop_criteria_Own(stop_counter) == early_stop /\ stop_counter >= stop_after
Proxy_stop_criteria(stop_counter) == Sa_stop_criteria(stop_counter)

\* on_accept(k, route, val)
Proxy_on_accept(st, k, route, val) == [st EXCEPT !.n_accept = @ + 1]

\* on_step dividing by k + 1, as for an iteration index that starts at 0
Proxy_on_step_ZeroBased(st, k, route, val, log_accept_prob) ==
    [st EXCEPT !.log_acceptance_probs = Append(@, log_accept_prob),
               !.values = Append(@, val),
               !.acceptance_ratio = Append(@, <<st.n_accept, k + 1>>),
               !.accept_prob = Append(@, Exp(log_accept_prob))]

\* on_step(k, route, val, log_accept_prob)
Proxy_on_step(st, k, route, val, log_accept_prob) ==
    [st EXCEPT !.log_acceptance_probs = Append(@, log_accept_prob),
               !.values = Append(@, val),
               !.acceptance_ratio = Append(@, <<st.n_accept, k>>),
               !.accept_prob = Append(@, Exp(log_accept_prob))]

\* ----------------------------------------------- AbstractSimulatedAnnealing
\* the methods of self, which is the engine ("sa") or the proxy ("proxy")
Self_n_iter(self) == IF self = "proxy" THEN Proxy_n_iter ELSE Sa_n_iter
Self_rng(self) == IF self = "proxy" THEN Proxy_rng ELSE Sa_rng
Self_initial_route(self) == IF self = "proxy" THEN Proxy_initial_route ELSE Sa_initial_route
Self_sample(self, new_route) ==
    IF self = "proxy" THEN Proxy_sample(new_route) ELSE Sa_sample(new_route)
Self_acceptance_probability(self, current_val, new_val, k) ==
    IF self = "proxy" THEN Proxy_acceptance_probability(current_val, new_val, k)
    ELSE Sa_acceptance_probability(current_val, new_val, k)
Self_stop_criteria(self, stop_counter) ==
    IF self = "proxy" THEN Proxy_stop_criteria(stop_counter) ELSE Sa_stop_criteria(stop_counter)
\* on_accept and on_step do nothing unless the proxy overrides them
Self_on_accept(self, st, k, route, val) ==
    IF self = "proxy" THEN Proxy_on_accept(st, k, route, val) ELSE st
Self_on_step(self, st, k, route, val, log_accept_prob) ==
    IF self = "proxy" THEN Proxy_on_step(st, k, route, val, log_accept_prob) ELSE st

\* run(): the condition of the accept branch, w standing for self.rng.uniform()
Accepted(log_accept_prob, w) ==
    RatLeq(Int2Rat(0), log_accept_prob) \/ DrawBelowExp(w, log_accept_prob)

\* the update keeping the route of the old best beside the new value
Best_update_StaleRoute(best_route, best_val, new_route, new_val) ==
    IF new_val < best_val THEN [route |-> best_route, val |-> new_val]
    ELSE [route |-> best_route, val |-> best_val]

\* the update without its comparison
Best_update_Always(best_route, best_val, new_route, new_val) ==
    [route |-> new_route, val |-> new_val]

\* run(): the update of the best route inside the accept branch
Best_update(best_route, best_val, new_route, new_val) ==
    IF new_val < best_val THEN [route |-> new_route, val |-> new_val]
    ELSE [route |-> best_route, val |-> best_val]

\* no run() call yet
Idle ==
    [pc |-> "idle", self |-> "sa", k |-> 0,
     best_route |-> <<>>, best_val |-> 0, stop_counter |-> 0,
     current_route |-> <<>>, current_val |-> 0,
     new_route |-> <<>>, new_val |-> 0, log_accept_prob |-> Int2Rat(0),
     u |-> 0, accepted |-> FALSE, accepts |-> 0, rejections |-> 0, left |-> "",
     uniform_rng |-> {}]

\* run(): the statements before the loop; an error of initial_route leaves
\* run() at once
Run_begin(self) ==
    IF total_distance_raises(cities)
    THEN [Idle EXCEPT !.pc = "raised", !.self = self, !.left = "initial_route"]
    ELSE LET init == Self_initial_route(self)
         IN  [Idle EXCEPT !.pc = IF Self_n_iter(self) >= 1 THEN "loop" ELSE "done",
                          !.self = self,
                          !.best_route = init.route, !.best_val = init.val,
                          !.current_route = init.route, !.current_val = init.val,
                          !.left = IF Self_n_iter(self) >= 1 THEN "" ELSE "range"]

\* run(): what the self.sample(current_route) call of an iteration can come
\* to, an error raised in the kernel, a kernel that never returns, or a
\* new route
Run_sample_outcomes(e) ==
    {IF Base_raises(Mover(kernel, u), Len(e.current_route)) THEN "raised"
     ELSE IF Base_loops(Mover(kernel, u), e.current_route) THEN "sampling"
     ELSE "returned" : u \in MixingDraws(kernel)}

\* run(): the loop body up to the acceptance test, new_route being what the
\* kernel returns for current_route
Run_propose(e, new_route) ==
    LET new == Self_sample(e.self, new_route)
    IN  [route |-> new.route, val |-> new.val,
         log_accept_prob |->
             Self_acceptance_probability(e.self, e.current_val, new.val, e.k + 1)]

\* the test draws self.rng.uniform() only when log_accept_prob < 0
Drawn(log_accept_prob) == ~RatLeq(Int2Rat(0), log_accept_prob)

\* run(): the rest of the loop body, and the return when the loop is left.
\* new is the proposal and w the engine's draw (0 when it is not drawn).  The fields u, accepted, accepts, rejections, left
\* and uniform_rng are the record of the call: the draw and the branch of
\* the last iteration, the number of iterations accepted, the rejected
\* iterations since the last accepted one, how the loop was left, and the
\* generators the last iteration drew from, in sample and in the test.
Run_iteration(e, st, new, w) ==
    LET self == e.self
        k == e.k + 1
        log_accept_prob == new.log_accept_prob
        accepted == Accepted(log_accept_prob, w)
        best == IF accepted THEN Best_update(e.best_route, e.best_val, new.route, new.val)
                ELSE [route |-> e.best_route, val |-> e.best_val]
        current_route == IF accepted THEN new.route ELSE e.current_route
        current_val == IF accepted THEN new.val ELSE e.current_val
        stop_counter == IF accepted THEN 0 ELSE e.stop_counter + 1
        st1 == IF accepted THEN Self_on_accept(self, st, k, current_route, current_val) ELSE st
        st2 == Self_on_step(self, st1, k, current_route, current_val, log_accept_prob)
        break == Self_stop_criteria(self, stop_counter)
        last == break \/ k = Self_n_iter(self)
    IN  [run |-> [e EXCEPT !.pc = IF last THEN "done" ELSE "loop",
                           !.k = k,
                           !.best_route = best.route,
                           !.best_val = best.val,
                           !.stop_counter = stop_counter,
                           !.current_route = current_route,
                           !.current_val = current_val,
                           !.new_route = new.route, !.new_val = new.val,
                           !.log_accept_prob = log_accept_prob,
                           !.u = w,
                           !.accepted = accepted,
                           !.accepts = IF accepted THEN @ + 1 ELSE @,
                           !.rejections = IF accepted THEN 0 ELSE @ + 1,
                           !.left = IF break THEN "break" ELSE IF last THEN "range" ELSE "",
                           !.uniform_rng =
                               IF Drawn(log_accept_prob) THEN {Self_rng(self)} ELSE {}],
         stats |-> st2]

\* SAStatsProxy.run(): the reset before super().run()
Run_reset(self, st) == IF self = "proxy" THEN Proxy_post_init ELSE st

SetStatsInit ==
    /\ log_acceptance_probs = <<>>
    /\ n_accept = 0
    /\ acceptance_ratio = <<>>
    /\ values = <<>>
    /\ accept_prob = <<>>

SetStats(st) ==
    /\ log_acceptance_probs' = st.log_acceptance_probs
    /\ n_accept' = st.n_accept
    /\ acceptance_ratio' = st.acceptance_ratio
    /\ values' = st.values
    /\ accept_prob' = st.accept_prob

\* ------------------------------------------------------------------ actions
\* no call made on a kernel, no u handed to _choose_kernel
NoU == Int2Rat(-1)
NoCall ==
    [op |-> "none", i |-> -1, j |-> -1, u |-> NoU, outcome |-> "none", drew |-> {}, val |-> -1]
NoChoice ==
    /\ m_input = <<>>
    /\ m_u = NoU
    /\ m_chosen = -1
NoSampling ==
    /\ k_route = <<>>
    /\ k_new_route = <<>>
    /\ k_call = NoCall
    /\ NoChoice

Init ==
    /\ cities \in CitySets
    /\ kernel \in Kernels
    /\ n_iter \in {0, MaxIter}
    /\ temperature \in Schedules
    /\ early_stop \in BOOLEAN
    /\ stop_after \in IF early_stop THEN 1..MaxStopAfter ELSE {MaxStopAfter}
    /\ seed \in {None, "seed"}
    /\ SetStatsInit
    /\ NoOthers
    /\ run = Idle
    /\ ref = Idle
    /\ calls = <<>>
    /\ NoSampling

\* the engine's uniform draws an iteration can take
UniformDraws(log_accept_prob) == IF Drawn(log_accept_prob) THEN 1..MaxNegLogU ELSE {0}

\* sa.run() or proxy.run() is called, no call being in progress; the calls
\* on the engine itself come before those on its proxy
RunCall(self) ==
    /\ run.pc \in {"idle", "done"}
    /\ Len(calls) < MaxRuns
    /\ self = "sa" => run.self = "sa"
    /\ calls' = Append(calls, self)
    /\ run' = Run_begin(self)
    /\ SetStats(Run_reset(self, Stats))
    /\ UNCHANGED <<others, config, ref, sampling>>

\* the call in progress makes one iteration
Iterate ==
    /\ run.pc = "loop"
    /\ \E outcome \in Run_sample_outcomes(run) :
         IF outcome = "returned"
         THEN \E new_route \in Kernel_outputs(kernel, run.current_route) :
                \E new \in {Run_propose(run, new_route)} :
                  \E w \in UniformDraws(new.log_accept_prob) :
                    \E out \in {Run_iteration(run, Stats, new, w)} :
                      /\ run' = out.run
                      /\ SetStats(out.stats)
         ELSE /\ run' = [run EXCEPT !.pc = outcome, !.left = "sample"]
              /\ UNCHANGED stats
    /\ UNCHANGED <<others, config, ref, calls, sampling>>

Next == (\E self \in {"sa", "proxy"} : RunCall(self)) \/ Iterate

Spec == Init /\ [][Next]_vars

\* the loop of a call in progress goes on: no step of it blocks
FairSpec == Spec /\ WF_vars(Iterate)

\* ----------------------------------------- the engine on fewer than 3 cities
\* no city, one city, two cities 5 apart
NoCity == << >>
OneCity == << [x |-> 0, y |-> 0] >>
TwoCities == << [x |-> 0, y |-> 0], [x |-> 3, y |-> 4] >>
SmallCitySets == {Cities(NoCity), Cities(OneCity), Cities(TwoCities)}

\* SimulatedAnnealingTSP(cities, kernel, ...): __post_init__ only picks the
\* generator, so every such engine is constructed
InitSmall ==
    /\ cities \in SmallCitySets
    /\ kernel \in Kernels \cup {MixingWalk}
    /\ n_iter \in {0, MaxIter}
    /\ temperature \in Schedules
    /\ early_stop \in BOOLEAN
    /\ stop_after \in IF early_stop THEN 1..MaxStopAfter ELSE {MaxStopAfter}
    /\ seed \in {None, "seed"}
    /\ SetStatsInit
    /\ NoOthers
    /\ run = Idle
    /\ ref = Idle
    /\ calls = <<>>
    /\ NoSampling

SmallSpec == InitSmall /\ [][Next]_vars

\* ------------------------------------- the proxy beside the engine it wraps
\* proxy.run() and sa.run() on two equal engines whose generators start in
\* the same state: equal generator states hand out equal draws, so each
\* iteration feeds both the same u, d and w
RunCallBoth ==
    /\ run.pc \in {"idle", "done"}
    /\ ref.pc \in {"idle", "done"}
    /\ Len(calls) < MaxRuns
    /\ calls' = Append(calls, "proxy")
    /\ run' = Run_begin("proxy")
    /\ ref' = Run_begin("sa")
    /\ SetStats(Run_reset("proxy", Stats))
    /\ UNCHANGED <<others, config, sampling>>

IterateBoth ==
    /\ run.pc = "loop"
    /\ ref.pc = "loop"
    /\ \E both \in Kernel_outputs_both(kernel, run.current_route, ref.current_route) :
         LET new1 == Run_propose(run, both[1])
             new2 == Run_propose(ref, both[2])
         IN  \E w \in UniformDraws(new1.log_accept_prob)
                         \cup UniformDraws(new2.log_accept_prob) :
               LET w1 == IF Drawn(new1.log_accept_prob) THEN Max(w, 1) ELSE 0
                   w2 == IF Drawn(new2.log_accept_prob) THEN Max(w, 1) ELSE 0
                   out == Run_iteration(run, Stats, new1, w1)
               IN  /\ run' = out.run
                   /\ SetStats(out.stats)
                   /\ ref' = Run_iteration(ref, Stats, new2, w2).run
    /\ UNCHANGED <<others, config, calls, sampling>>

NextBoth == RunCallBoth \/ IterateBoth

BothSpec == Init /\ [][NextBoth]_vars

\* --------------------------------------------------- a kernel on its own
\* every permutation of 3..MaxLen cities
Routes == UNION {Orderings(n) : n \in 3..MaxLen}

InitKernel ==
    /\ cities = Cities(Triangle)
    /\ kernel \in Kernels \cup {MixingWalk}
    /\ n_iter = 0
    /\ temperature = "exponential"
    /\ early_stop = FALSE
    /\ stop_after = 1
    /\ seed = None
    /\ SetStatsInit
    /\ NoOthers
    /\ run = Idle
    /\ ref = Idle
    /\ calls = <<>>
    /\ k_route \in Routes
    /\ k_new_route = <<>>
    /\ k_call = NoCall
    /\ NoChoice

\* k_new_route = kernel.sample(k_route).  A mixing kernel draws u from its
\* own generator first; the kernel that moves then raises in rng.choice,
\* or never leaves its loop, or draws d and returns.
Sample ==
    /\ k_call.op = "none"
    /\ \E u \in MixingDraws(kernel) :
         LET mover == Mover(kernel, u)
             own == IF kernel.kind = "mixing" THEN {"kernel"} ELSE {}
             call == [NoCall EXCEPT !.op = "sample", !.u = u]
         IN  IF Base_raises(mover, Len(k_route))
             THEN /\ k_call' = [call EXCEPT !.outcome = "error", !.drew = own]
                  /\ UNCHANGED <<k_route, k_new_route>>
             ELSE IF Base_loops(mover, k_route)
             THEN /\ k_call' = [call EXCEPT !.outcome = "loops", !.drew = Kernel_rng(kernel, u)]
                  /\ UNCHANGED <<k_route, k_new_route>>
             ELSE \E d \in BaseDraws(mover, Len(k_route)) :
                    /\ k_call' = [call EXCEPT !.outcome = "returned", !.drew = Kernel_rng(kernel, u)]
                    /\ k_new_route' = Kernel_sample(kernel, k_route, u, d)
                    /\ k_route' = Kernel_sample_arg(kernel, k_route, u, d)
    /\ UNCHANGED <<others, config, stats, engine, m_input, m_u, m_chosen>>

\* k_new_route = kernel._sample(k_route, i, j), the static method of the
\* swap, reversion and insertion kernels, at any two positions of the route
SampleAt ==
    /\ k_call.op = "none"
    /\ kernel.kind \in {"swap", "reversion", "insertion"}
    /\ \E i, j \in 0..(Len(k_route) - 1) :
         LET heap == CASE kernel.kind = "swap" -> Swap_sample_heap(k_route, i, j)
                       [] kernel.kind = "reversion" -> Reversion_sample_heap(k_route, i, j)
                       [] kernel.kind = "insertion" -> Insertion_sample_heap(k_route, i, j)
         IN  /\ k_call' = [NoCall EXCEPT !.op = "_sample", !.i = i, !.j = j,
                                         !.outcome = "returned"]
             /\ k_new_route' = heap.new
             /\ k_route' = heap.arg
    /\ UNCHANGED <<others, config, stats, engine, m_input, m_u, m_chosen>>

\* the caller goes on from the route it was given
Advance ==
    /\ k_call.outcome = "returned"
    /\ k_route' = k_new_route
    /\ k_new_route' = <<>>
    /\ k_call' = NoCall
    /\ UNCHANGED <<others, config, stats, engine, m_input, m_u, m_chosen>>

NextKernel == Sample \/ SampleAt \/ Advance

KernelSpec == InitKernel /\ [][NextKernel]_vars

\* ------------------------------------------- a kernel given a short route
\* every route of fewer than 3 of the cities 0..MaxLen-1, the empty one too
ShortRoutes ==
    {r \in UNION {[1..n -> 0..(MaxLen - 1)] : n \in 0..2} :
        \A p, q \in 1..Len(r) : p # q => r[p] # r[q]}

InitShort ==
    /\ cities = Cities(Triangle)
    /\ kernel \in Kernels \cup {MixingWalk}
    /\ n_iter = 0
    /\ temperature = "exponential"
    /\ early_stop = FALSE
    /\ stop_after = 1
    /\ seed = None
    /\ SetStatsInit
    /\ NoOthers
    /\ run = Idle
    /\ ref = Idle
    /\ calls = <<>>
    /\ k_route \in ShortRoutes
    /\ k_new_route = <<>>
    /\ k_call = NoCall
    /\ NoChoice

NextShort == Sample

ShortSpec == InitShort /\ [][NextShort]_vars

\* ------------------------------------------- the legacy engine (tsp/sa.py)
\* what the caller passes as dist_matrix: a float ndarray, an int ndarray,
\* a list of lists of floats
ArgKinds == {"float_array", "int_array", "float_list"}

\* float("inf"), and None where a route is expected
Inf == <<1, 0>>
NoRoute == <<>>

\* np.asarray(dist_matrix) is the caller's object when that is an ndarray,
\* and a new array otherwise
Asarray_same(arg_kind) == arg_kind \in {"float_array", "int_array"}

\* self.dist_matrix /= np.max(self.dist_matrix) raises for an int array: the
\* float quotient cannot be stored in place
Idiv_raises(arg_kind) == arg_kind = "int_array"

\* np.max(matrix)
MatrixMax(matrix) ==
    CHOOSE m \in {matrix[e] : e \in DOMAIN matrix} :
        \A e \in DOMAIN matrix : RatLeq(matrix[e], m)

\* matrix / np.max(matrix), entry by entry
Normalised(matrix) ==
    LET m == MatrixMax(matrix)
    IN  [e \in DOMAIN matrix |-> RatDiv(matrix[e], m)]

\* the matrix of cities as the array of floats the caller holds
FloatMatrix(self) == [e \in DOMAIN self.dist_matrix |-> Int2Rat(self.dist_matrix[e])]

\* sum(l) of a list of floats
RatSum(l) ==
    LET upto[k \in 0..Len(l)] == IF k = 0 THEN Int2Rat(0) ELSE RatAdd(upto[k - 1], l[k])
    IN  upto[Len(l)]

\* dist_route(route) over the engine's own float matrix
Legacy_dist_route(self, route) ==
    LET rot_route == RotateLeft(route)
    IN  RatSum([p \in 1..Len(route) |-> self.dist_matrix[route[p], rot_route[p]]])

\* SimulatedAnnealingTSP.__init__(dist_matrix, n_iter, cooling_schedule,
\* kernel, early_stop, stop_after, seed): the engine and the caller's array
\* afterwards.  The engine's generator is the kernel's when seed is None.
Legacy_init(arg_kind, given) ==
    IF Idiv_raises(arg_kind)
    THEN [pc |-> "raised", arg_kind |-> arg_kind, given |-> given, caller |-> given]
    ELSE [pc |-> "idle", arg_kind |-> arg_kind, given |-> given,
          caller |-> IF Asarray_same(arg_kind) THEN Normalised(given) ELSE given,
          dist_matrix |-> Normalised(given),
          len_route |-> Cities_len(cities),
          rng |-> IF seed = None THEN "kernel" ELSE "sa",
          log_accept_prob |-> <<>>, n_accept |-> 0, acceptance_ratio |-> <<>>,
          values |-> <<>>,
          best_route |-> [value |-> Inf, route |-> NoRoute],
          last_route |-> NoRoute, last_k |-> 0,
          runs |-> 0, first_k |-> 0, first_route |-> NoRoute,
          route |-> <<>>, dist_route |-> Int2Rat(0), new_route |-> <<>>,
          stop_counter |-> 0, k |-> 0, left |-> 0, accepted |-> FALSE,
          uniform_rng |-> {}]

\* _init_route()
Legacy_init_route(self) ==
    IF self.last_route # NoRoute THEN self.last_route
    ELSE [p \in 1..self.len_route |-> p - 1]

\* _update_best_route(route, dist_route)
Legacy_update_best_route(self, route, dist) ==
    IF self.best_route.value = Inf \/ RatLess(dist, self.best_route.value)
    THEN [self EXCEPT !.best_route = [value |-> dist, route |-> route]]
    ELSE self

\* run(): the statements before the loop; the range of k is empty when
\* n_iter is 0, and then _last_route is set at once.  first_k and
\* first_route record where this call starts, left the iterations to go.
Legacy_run_begin(self) ==
    LET route == Legacy_init_route(self)
        dist == Legacy_dist_route(self, route)
        registered == [self EXCEPT !.values = Append(@, dist)]
        best == Legacy_update_best_route(registered, route, dist)
    IN  [best EXCEPT !.pc = IF n_iter >= 1 THEN "loop" ELSE "done",
                     !.runs = @ + 1,
                     !.first_k = self.last_k, !.first_route = route,
                     !.route = route, !.dist_route = dist, !.new_route = <<>>,
                     !.stop_counter = 0, !.k = self.last_k, !.left = n_iter,
                     !.accepted = FALSE, !.uniform_rng = {},
                     !.last_route = IF n_iter >= 1 THEN @ ELSE route]

\* RandomWalkKernelTSP.sample(route): the first city followed by the drawn
\* positions 1..N-1 themselves, drawn again while the list equals route
Legacy_RandomWalk_outputs(route) ==
    {new_route \in {Slice(route, 0, 1) \o perm : perm \in ChoicePerms(Len(route) - 1)} :
        new_route # route}

\* the routes self.kernel(route) can return
Legacy_kernel_outputs(route) ==
    IF kernel.kind = "random_walk" THEN Legacy_RandomWalk_outputs(route)
    ELSE Kernel_outputs(kernel, route)

\* the log acceptance probability of iteration k
Legacy_log_accept_prob(dist_new_route, dist_route0, k) ==
    LET gap == RatAdd(dist_new_route, <<-dist_route0[1], dist_route0[2]>>)
    IN  IF RatLeq(gap, Int2Rat(0)) THEN Int2Rat(0)
        ELSE RatDiv(<<-gap[1], gap[2]>>, RatAdd(Temperature(temperature, k), EPS))

\* run(): one pass of the loop body for the candidate new_route and the
\* draw u = e^(-w), and the statement after the loop when it is left
Legacy_run_iteration(self, new_route, w) ==
    LET k == self.k
        counted == self.stop_counter + 1
        dist_new_route == Legacy_dist_route(self, new_route)
        registered == [self EXCEPT !.values = Append(@, dist_new_route)]
        log_accept_prob == Legacy_log_accept_prob(dist_new_route, self.dist_route, k)
        logged == [registered EXCEPT !.log_accept_prob = Append(@, log_accept_prob)]
        drawn == ~RatLeq(Int2Rat(0), log_accept_prob)
        accepted == ~drawn \/ RatLeq(Int2Rat(-w), log_accept_prob)
        stop_counter == IF accepted THEN 0 ELSE counted
        best == IF accepted
                THEN [Legacy_update_best_route(logged, self.route, dist_new_route)
                         EXCEPT !.n_accept = @ + 1]
                ELSE logged
        route == IF accepted THEN new_route ELSE self.route
        dist == IF accepted THEN dist_new_route ELSE self.dist_route
        break == early_stop /\ stop_counter >= stop_after
        last == break \/ self.left = 1
    IN  [best EXCEPT !.acceptance_ratio = Append(@, <<best.n_accept, k + 1>>),
                     !.last_k = k + 1,
                     !.route = route, !.dist_route = dist, !.new_route = new_route,
                     !.stop_counter = stop_counter,
                     !.k = k + 1, !.left = @ - 1,
                     !.accepted = accepted,
                     !.uniform_rng = IF drawn THEN {self.rng} ELSE {},
                     !.pc = IF last THEN "done" ELSE "loop",
                     !.last_route = IF last THEN route ELSE @]

\* a caller builds the float matrix of some cities and an engine on it
InitLegacy ==
    /\ cities \in CitySets
    /\ kernel \in {SwapKernel, ReversionKernel, InsertionKernel, RandomWalkKernel}
    /\ n_iter \in {0, MaxIter}
    /\ temperature \in Schedules
    /\ early_stop \in BOOLEAN
    /\ stop_after \in IF early_stop THEN 1..MaxStopAfter ELSE {MaxStopAfter}
    /\ seed \in {None, "seed"}
    /\ SetStatsInit
    /\ run = Idle
    /\ ref = Idle
    /\ calls = <<>>
    /\ NoSampling
    /\ legacy = NoLegacy
    /\ jl = NoJl

LegacyConstruct ==
    /\ legacy = NoLegacy
    /\ \E arg_kind \in ArgKinds : legacy' = Legacy_init(arg_kind, FloatMatrix(cities))
    /\ UNCHANGED <<config, stats, engine, sampling, jl>>

LegacyRun ==
    /\ legacy.pc \in {"idle", "done"}
    /\ legacy.runs < MaxRuns
    /\ legacy' = Legacy_run_begin(legacy)
    /\ UNCHANGED <<config, stats, engine, sampling, jl>>

LegacyIterate ==
    /\ legacy.pc = "loop"
    /\ \E new_route \in Legacy_kernel_outputs(legacy.route) :
         \E w \in 1..MaxNegLogU :
           legacy' = Legacy_run_iteration(legacy, new_route, w)
    /\ UNCHANGED <<config, stats, engine, sampling, jl>>

NextLegacy == LegacyConstruct \/ LegacyRun \/ LegacyIterate

LegacySpec == InitLegacy /\ [][NextLegacy]_vars

\* ------------------------------- a legacy kernel (tsp/kernels.py) on its own
InitLegacyKernel ==
    /\ cities = Cities(Triangle)
    /\ kernel \in {SwapKernel, ReversionKernel, InsertionKernel, RandomWalkKernel}
    /\ n_iter = 0
    /\ temperature = "exponential"
    /\ early_stop = FALSE
    /\ stop_after = 1
    /\ seed = None
    /\ SetStatsInit
    /\ NoOthers
    /\ run = Idle
    /\ ref = Idle
    /\ calls = <<>>
    /\ k_route \in Routes
    /\ k_new_route = <<>>
    /\ k_call = NoCall
    /\ NoChoice

\* k_new_route = kernel.sample(k_route) of SwapKernelTSP, ReversionKernelTSP,
\* InsertionKernelTSP or RandomWalkKernelTSP; the first three are the
\* statements of the py kernels on a plain list
LegacySample ==
    /\ k_call.op = "none"
    /\ \E new_route \in Legacy_kernel_outputs(k_route) :
         /\ k_new_route' = new_route
         /\ k_call' = [NoCall EXCEPT !.op = "sample", !.outcome = "returned",
                                     !.drew = {"kernel"}]
    /\ UNCHANGED <<others, config, stats, engine, k_route, m_input, m_u, m_chosen>>

\* k_new_route = kernel._sample(k_route, i, j) of SwapKernelTSP,
\* ReversionKernelTSP or InsertionKernelTSP
LegacySampleAt ==
    /\ k_call.op = "none"
    /\ kernel.kind \in {"swap", "reversion", "insertion"}
    /\ \E i, j \in 0..(Len(k_route) - 1) :
         LET heap == CASE kernel.kind = "swap" -> Swap_sample_heap(k_route, i, j)
                       [] kernel.kind = "reversion" -> Reversion_sample_heap(k_route, i, j)
                       [] kernel.kind = "insertion" -> Insertion_sample_heap(k_route, i, j)
         IN  /\ k_call' = [NoCall EXCEPT !.op = "_sample", !.i = i, !.j = j,
                                         !.outcome = "returned"]
             /\ k_new_route' = heap.new
             /\ k_route' = heap.arg
    /\ UNCHANGED <<others, config, stats, engine, m_input, m_u, m_chosen>>

NextLegacyKernel == LegacySample \/ LegacySampleAt \/ Advance

LegacyKernelSpec == InitLegacyKernel /\ [][NextLegacyKernel]_vars

\* --------------------------------- the Julia wrappers (tsp/jl/common.py)
\* the wrapper instances at hand: two points and the cities made of them, a
\* route, a swap kernel and the mixing kernel over it, the engine on the
\* cities and the mixing kernel, and the proxy on the engine
Wrappers == {"p1", "p2", "cities", "route", "swap", "mixing", "sa", "proxy"}

\* nobody's Julia constructor raises
Nobody == "nobody"

\* _jl_obj = None
JlNone == 0

\* the wrappers whose to_jl() the _to_jl_impl of w calls, in the order of
\* the calls, before it calls the Julia constructor
Wrapped(w) ==
    IF w = "cities" THEN <<"p1", "p2">>
    ELSE IF w = "mixing" THEN <<"swap">>
    ELSE IF w = "sa" THEN <<"cities", "mixing">>
    ELSE IF w = "proxy" THEN <<"sa">>
    ELSE <<>>

\* to_jl() that takes nothing for stored
To_jl_cached_Never(jl_obj) == FALSE

\* to_jl(): not (getattr(self, "_jl_obj", None) is None)
To_jl_cached(jl_obj) == jl_obj # JlNone

RECURSIVE To_jl(_, _, _)
RECURSIVE To_jl_wrapped(_, _, _, _)

\* _to_jl_impl of w: the to_jl() calls on the wrappers it holds, then the
\* Julia constructor, which returns an object that did not exist before or
\* raises (for the wrapper bad).  An error leaves at once.
To_jl_impl(st, w, bad) ==
    LET st1 == To_jl_wrapped(st, Wrapped(w), 1, bad)
    IN  IF st1.raised THEN st1
        ELSE IF w = bad THEN [st1 EXCEPT !.raised = TRUE, !.ret = JlNone]
        ELSE [st1 EXCEPT !.ret = st1.next, !.next = @ + 1,
                         !.impl_returns[w] = @ + 1]

\* the to_jl() calls of _to_jl_impl on ws[i], ws[i+1], ...
To_jl_wrapped(st, ws, i, bad) ==
    IF i > Len(ws) \/ st.raised THEN st
    ELSE To_jl_wrapped(To_jl(st, ws[i], bad), ws, i + 1, bad)

\* w.to_jl(): st.ret is what it returns.  first and last are the record of
\* the calls: what the first and the latest to_jl() on a wrapper returned.
To_jl(st, w, bad) ==
    LET st1 == IF To_jl_cached(st.obj[w]) THEN st
               ELSE LET impl == To_jl_impl([st EXCEPT !.impl_calls[w] = @ + 1], w, bad)
                    IN  IF impl.raised THEN impl
                        ELSE [impl EXCEPT !.obj[w] = impl.ret]
    IN  IF st1.raised THEN st1
        ELSE [st1 EXCEPT !.ret = st1.obj[w],
                         !.first[w] = IF @ = JlNone THEN st1.obj[w] ELSE @,
                         !.last[w] = st1.obj[w]]

\* the wrappers as constructed: nothing stored, no call made
JlBuilt ==
    [pc |-> "built",
     obj |-> [w \in Wrappers |-> JlNone],
     impl_calls |-> [w \in Wrappers |-> 0],
     impl_returns |-> [w \in Wrappers |-> 0],
     first |-> [w \in Wrappers |-> JlNone],
     last |-> [w \in Wrappers |-> JlNone],
     next |-> 1, ret |-> JlNone, raised |-> FALSE,
     calls |-> 0, w |-> Nobody, was |-> JlNone]

InitJl ==
    /\ cities = Cities(Triangle)
    /\ kernel = SwapKernel
    /\ n_iter = 0
    /\ temperature = "exponential"
    /\ early_stop = FALSE
    /\ stop_after = 1
    /\ seed = None
    /\ SetStatsInit
    /\ legacy = NoLegacy
    /\ jl = JlBuilt
    /\ run = Idle
    /\ ref = Idle
    /\ calls = <<>>
    /\ NoSampling

\* w.to_jl() is called; the Julia constructor of at most one wrapper raises
\* during the call
ToJl ==
    /\ jl.pc = "built"
    /\ jl.calls < MaxJlCalls
    /\ \E w \in Wrappers, bad \in Wrappers \cup {Nobody} :
         \E out \in {To_jl([jl EXCEPT !.raised = FALSE, !.ret = JlNone], w, bad)} :
           jl' = [out EXCEPT !.calls = @ + 1, !.w = w, !.was = jl.obj[w]]
    /\ UNCHANGED <<config, stats, engine, sampling, legacy>>

NextJl == ToJl

JlSpec == InitJl /\ [][NextJl]_vars

\* ------------------------------------------------- the cost of a route
\* every list of N city numbers, for each set of N >= 1 cities
InitDistance ==
    /\ cities \in CitySets \cup {Cities(OneCity), Cities(TwoCities)}
    /\ kernel = SwapKernel
    /\ n_iter = 0
    /\ temperature = "exponential"
    /\ early_stop = FALSE
    /\ stop_after = 1
    /\ seed = None
    /\ SetStatsInit
    /\ NoOthers
    /\ run = Idle
    /\ ref = Idle
    /\ calls = <<>>
    /\ k_route \in [1..Cities_len(cities) -> 0..(Cities_len(cities) - 1)]
    /\ k_new_route = <<>>
    /\ k_call = NoCall
    /\ NoChoice

\* cities.total_distance(Route(k_route))
TotalDistance ==
    /\ k_call.op = "none"
    /\ k_call' = [NoCall EXCEPT !.op = "total_distance", !.outcome = "returned",
                                !.val = total_distance(cities, k_route)]
    /\ UNCHANGED <<others, config, stats, engine, k_route, k_new_route, m_input, m_u, m_chosen>>

\* dist_route(k_route) of a legacy engine whose dist_matrix is that of cities
DistRoute ==
    /\ k_call.op = "none"
    /\ k_call' = [NoCall EXCEPT !.op = "dist_route", !.outcome = "returned",
                                !.val = dist_route([dist_matrix |-> cities.dist_matrix], k_route)]
    /\ UNCHANGED <<others, config, stats, engine, k_route, k_new_route, m_input, m_u, m_chosen>>

NextDistance == TotalDistance \/ DistRoute

DistanceSpec == InitDistance /\ [][NextDistance]_vars

\* --------------------------------------------- a mixing kernel on its own
\* the (prob, kernel) pairs mixing kernels are built from: the test suite's,
\* a skewed one, equal probabilities, a tie behind the largest, weights
\* that do not sum to 1, a single kernel
MixInputs ==
    {<< <<<<3, 10>>, SwapKernel>>, <<<<2, 10>>, ReversionKernel>>, <<<<5, 10>>, InsertionKernel>> >>,
     << <<<<1, 20>>, SwapKernel>>, <<<<5, 20>>, ReversionKernel>>, <<<<14, 20>>, InsertionKernel>> >>,
     << <<<<1, 2>>, RandomWalkKernel>>, <<<<1, 2>>, SwapKernel>> >>,
     << <<<<1, 4>>, SwapKernel>>, <<<<1, 2>>, ReversionKernel>>, <<<<1, 4>>, InsertionKernel>> >>,
     << <<<<2, 1>>, SwapKernel>>, <<<<1, 1>>, ReversionKernel>>, <<<<1, 1>>, InsertionKernel>> >>,
     << <<<<1, 1>>, SwapKernel>> >>}

\* both construction forms for each of them
MixBuilt ==
    [pairs \in MixInputs |->
        LET final == Mixing_final_pairs(pairs)
        IN  [lists |-> MixingKernel(final.kernels, final.probs),
             pairs |-> MixingKernelPairs(pairs)]]

\* rng.uniform() returns a float of [0, 1): a multiple of _EPS / 2
UniformFloats == {<<b, 2 * EpsDen>> : b \in 0..(2 * EpsDen - 1)}

InitMixing ==
    /\ cities = Cities(Triangle)
    /\ m_input \in MixInputs
    /\ kernel = MixBuilt[m_input].lists
    /\ n_iter = 0
    /\ temperature = "exponential"
    /\ early_stop = FALSE
    /\ stop_after = 1
    /\ seed = None
    /\ SetStatsInit
    /\ NoOthers
    /\ run = Idle
    /\ ref = Idle
    /\ calls = <<>>
    /\ k_route = <<>>
    /\ k_new_route = <<>>
    /\ k_call = NoCall
    /\ m_u = NoU
    /\ m_chosen = -1

\* kernel._choose_kernel(u) is called once, for a draw of the generator or
\* for u = 1
ChooseKernel ==
    /\ m_u = NoU
    /\ \E u \in UniformFloats \cup {Int2Rat(1)} :
         /\ m_u' = u
         /\ m_chosen' = Mixing_choose_kernel(kernel, u)
    /\ UNCHANGED <<others, config, stats, engine, k_route, k_new_route, k_call, m_input>>

NextMixing == ChooseKernel

MixSpec == InitMixing /\ [][NextMixing]_vars

\* ------------------------------------------------------------ properties
\* the number of cities and the identity route run() starts from
N == Cities_len(cities)
Identity == Sa_initial_route.route
IdentityVal == Sa_initial_route.val

\* the cost of every tour of the cities, and the least of them
TourCosts(c) == {total_distance(c, r) : r \in Orderings(Cities_len(c))}
MinTourOf ==
    [c \in CitySets |-> CHOOSE m \in TourCosts(c) : \A t \in TourCosts(c) : m <= t]
MinTour == MinTourOf[cities]

\* the proxy's four series, and whether q continues p
Series == <<log_acceptance_probs, acceptance_ratio, values, accept_prob>>
IsPrefix(p, q) == Len(p) <= Len(q) /\ SubSeq(q, 1, Len(p)) = p

\* C1: in every state of run(), and at return, best_route is a permutation
\* of [0, N) and best_val is cities.total_distance(best_route), so best_val
\* is never below the least cost over all tours of the cities.
C1_BestIsATour ==
    run.pc # "idle" =>
        /\ IsPermutation(run.best_route, N)
        /\ run.best_val = total_distance(cities, run.best_route)
        /\ run.best_val >= MinTour

\* run() has returned a best route that is not the one it started from
C1_Witness ==
    /\ run.pc = "done"
    /\ run.k >= 1
    /\ run.best_route # Identity
    /\ run.best_val = MinTour

\* C2: for a route that is a permutation of N >= 3 cities, sample of the
\* swap, reversion, insertion, random-walk and mixing kernels returns a
\* route of the same length holding the same cities, each exactly once.
C2_SamplePermutes ==
    k_new_route # <<>> =>
        /\ Len(k_new_route) = Len(k_route)
        /\ IsPermutation(k_route, Len(k_route))
        /\ IsPermutation(k_new_route, Len(k_route))

\* a mixing kernel has returned a changed route of MaxLen cities, for a
\* route that does not start at city 0
C2_Witness ==
    /\ kernel.kind = "mixing"
    /\ Len(k_route) = MaxLen
    /\ k_route[1] # 0
    /\ k_new_route # <<>>
    /\ k_new_route # k_route

\* C3: with early_stop and stop_after = S, run() never executes more than
\* S rejected iterations in a row.
C3_AtMostStopAfterRejections ==
    (run.pc # "idle" /\ early_stop) => run.rejections <= stop_after

\* C4: in iteration k a candidate costing no more than the current route is
\* accepted with log_accept_prob = 0, and a dearer one is accepted exactly
\* when the draw u is below exp(-gap / (temperature(k) + eps)).
C4_Metropolis ==
    [][run'.k = run.k + 1 =>
        LET gap == run'.new_val - run.current_val
            bar == RatDiv(Int2Rat(-gap),
                          RatAdd(Temperature(temperature, run'.k), EPS))
            taken == IF gap <= 0 THEN TRUE ELSE DrawBelowExp(run'.u, bar)
        IN  /\ gap <= 0 => run'.log_accept_prob = Int2Rat(0) /\ run'.u = 0
            /\ gap > 0 => run'.u >= 1 /\ RatEq(run'.log_accept_prob, bar)
            /\ run'.accepted = taken
            /\ taken => /\ run'.current_route = run'.new_route
                        /\ run'.current_val = run'.new_val
            /\ ~taken => /\ run'.current_route = run.current_route
                         /\ run'.current_val = run.current_val]_vars

\* a dearer candidate was accepted on the draw
C4_Witness ==
    /\ run.k >= 1
    /\ run.u >= 1
    /\ run.accepted
    /\ run.current_route = run.new_route
    /\ Drawn(run.log_accept_prob)

\* C5: from one iteration to the next best_val never increases, it changes
\* only on an accepted candidate costing strictly less than the best_val
\* before, and it never exceeds the cost of the identity route.
C5_BestNeverWorse ==
    [][run'.k = run.k + 1 =>
        /\ run'.best_val <= run.best_val
        /\ run'.best_val # run.best_val =>
               /\ run'.accepted
               /\ run'.new_val < run.best_val
               /\ run'.best_val = run'.new_val
        /\ run'.best_val <= IdentityVal]_vars

\* the best cost has gone below the cost of the identity route, and a later
\* accepted candidate that is dearer has left it alone
C5_Witness ==
    /\ run.k >= 2
    /\ run.best_val < IdentityVal
    /\ run.accepted
    /\ run.new_val > run.best_val

\* C6: run() returns after at most n_iter iterations; without early_stop it
\* executes exactly n_iter of them, and it returns before n_iter only by
\* the early-stop criterion.
C6_Terminates ==
    /\ [](/\ run.k <= n_iter
          /\ (run.pc = "done" /\ ~early_stop) =>
                 (run.k = n_iter /\ run.left = "range")
          /\ (run.pc = "done" /\ run.k < n_iter) =>
                 /\ run.left = "break"
                 /\ early_stop
                 /\ run.stop_counter > stop_after
          /\ run.pc = "loop" => run.k < n_iter)
    /\ (run.pc = "loop" ~> run.pc = "done")

\* run() has returned by the early-stop criterion before n_iter iterations
C6_Witness ==
    /\ run.pc = "done"
    /\ run.left = "break"
    /\ run.k >= 1
    /\ run.k < n_iter

\* C7: every call of run(), on the engine and on the proxy, starts from the
\* identity route with the iteration index at 1, the rejection counter at 0
\* and best taken from the initial route, and the proxy's series and
\* n_accept are emptied, so the series describe only the call under way.
C7_RunStartsFresh ==
    /\ [][Len(calls') = Len(calls) + 1 =>
            /\ run'.self = calls'[Len(calls')]
            /\ run'.k = 0
            /\ run'.current_route = Identity
            /\ run'.current_val = IdentityVal
            /\ run'.best_route = Identity
            /\ run'.best_val = IdentityVal
            /\ run'.stop_counter = 0
            /\ run'.accepts = 0
            /\ run'.self = "proxy" =>
                   /\ log_acceptance_probs' = <<>>
                   /\ acceptance_ratio' = <<>>
                   /\ values' = <<>>
                   /\ accept_prob' = <<>>
                   /\ n_accept' = 0]_vars
    /\ [][(run.k = 0 /\ run'.k # 0) => run'.k = 1]_vars
    /\ [](run.self = "proxy" =>
            /\ \A i \in 1..4 : Len(Series[i]) = run.k
            /\ n_accept = run.accepts)

\* a second run() on the proxy has started, after a first one that had
\* filled the series
C7_Witness ==
    /\ calls = <<"proxy", "proxy">>
    /\ run.pc = "loop"
    /\ run.k = 0
    /\ values = <<>>
    /\ n_accept = 0

\* C8: fed the same draws, the proxy's run() proposes the same candidates,
\* takes the same decisions, stops at the same iteration and returns the
\* same best as the engine's run(), with the same current route, rejection
\* counter and generators drawn from.
C8_ProxyFollowsEngine ==
    (run.self = "proxy" /\ ref.self = "sa" /\ run.pc # "idle") =>
        [run EXCEPT !.self = "sa"] = ref

\* both have returned by the early-stop criterion after an accepted
\* iteration, the proxy having recorded it
C8_Witness ==
    /\ run.self = "proxy"
    /\ ref.self = "sa"
    /\ run.pc = "done"
    /\ ref.pc = "done"
    /\ run.left = "break"
    /\ run.accepts >= 1
    /\ n_accept >= 1
    /\ Len(values) = run.k

\* C9: after each iteration of the proxy's run(), the entry appended to
\* values is the cost of the candidate proposed in that iteration, accepted
\* or rejected.
C9_ValuesHoldCandidateCost ==
    (run.self = "proxy" /\ run.k >= 1 /\ Len(values) = run.k) =>
        values[run.k] = run.new_val

\* C10: after iteration k of the proxy's run() each of the four series
\* holds k entries, acceptance_ratio[k-1] is the number of iterations
\* accepted among the first k over k, and at return n_accept is the number
\* of iterations accepted.
C10_SeriesCount ==
    /\ [](run.self = "proxy" =>
            /\ \A i \in 1..4 : Len(Series[i]) = run.k
            /\ run.k >= 1 =>
                   RatEq(acceptance_ratio[run.k], <<run.accepts, run.k>>)
            /\ run.pc = "done" => n_accept = run.accepts)
    /\ [][(run'.self = "proxy" /\ run'.k = run.k + 1) =>
            \A i \in 1..4 : IsPrefix(Series[i], Series'[i])]_vars

\* the proxy's run() has returned after MaxIter iterations, some accepted
\* and some rejected
C10_Witness ==
    /\ run.self = "proxy"
    /\ run.pc = "done"
    /\ run.k = MaxIter
    /\ run.accepts >= 1
    /\ run.accepts < run.k
    /\ n_accept = run.accepts


\* C11: for u in [0, 1) _choose_kernel(u) returns the one sub-kernel, in the
\* sorted order, whose interval [_cumsum_p[i], _cumsum_p[i+1]) holds u, for
\* u = 1 it returns the last sub-kernel, and it never returns None.
C11_ChooseKernelPartition ==
    m_chosen # -1 =>
        LET n == Len(kernel.kernels)
            Holds(i) == /\ RatLeq(kernel.cumsum_p[i], m_u)
                        /\ RatLess(m_u, kernel.cumsum_p[i + 1])
        IN  /\ m_chosen \in 1..n
            /\ RatEq(m_u, Int2Rat(1)) => m_chosen = n
            /\ ~RatEq(m_u, Int2Rat(1)) =>
                   /\ Holds(m_chosen)
                   /\ \A i \in 1..n : Holds(i) => i = m_chosen

\* C12: built in either form, a mixing kernel stores kernels and probs in
\* descending order of normalised probability, equal ones in input order,
\* every probability positive, the probabilities summing to 1 and _cumsum_p
\* their running sum from 0 to 1; both forms give the same kernel.
C12_SortedPartition ==
    m_input # <<>> =>
        LET n == Len(m_input)
            built == MixBuilt[m_input]
        IN  /\ built.pairs = built.lists
            /\ kernel = built.lists
            /\ Len(kernel.probs) = n /\ Len(kernel.kernels) = n
            /\ \A i \in 1..n : kernel.kernels[i] = m_input[kernel.rngs[i]][2]
            /\ \A i, j \in 1..n : i < j =>
                   /\ RatLeq(kernel.probs[j], kernel.probs[i])
                   /\ RatEq(kernel.probs[j], kernel.probs[i]) =>
                          kernel.rngs[i] < kernel.rngs[j]
            /\ \A i \in 1..n : RatLess(Int2Rat(0), kernel.probs[i])
            /\ kernel.cumsum_p[1] = Int2Rat(0)
            /\ \A i \in 1..n :
                   kernel.cumsum_p[i + 1] = FlAdd(kernel.cumsum_p[i], kernel.probs[i])
            /\ kernel.cumsum_p[n + 1] = Int2Rat(1)

\* l with the item at position p (counted from 0) left out
Without(l, p) == [q \in 1..(Len(l) - 1) |-> IF q <= p THEN l[q] ELSE l[q + 1]]

\* C13: for distinct positions i, j of a route, InsertionKernel._sample
\* returns a route with the city of position i at index j and the other
\* cities in their old order, and leaves the input route as it was.
C13_InsertionMoves ==
    [][(/\ k_call'.op = "_sample"
        /\ kernel.kind = "insertion"
        /\ k_call'.i # k_call'.j)
       => /\ k_route' = k_route
          /\ Len(k_new_route') = Len(k_route)
          /\ At(k_new_route', k_call'.j) = At(k_route, k_call'.i)
          /\ Without(k_new_route', k_call'.j) = Without(k_route, k_call'.i)]_vars

\* the last city of a 4-city route has been moved to the front
C13_Witness ==
    /\ k_call.op = "_sample"
    /\ kernel.kind = "insertion"
    /\ k_call.i = 3
    /\ k_call.j = 0
    /\ k_route = <<1, 0, 3, 2>>
    /\ k_new_route = <<2, 1, 0, 3>>

\* C14: for any positions i, j of a route, ReversionKernel._sample returns
\* the route with the positions min(i,j)..max(i,j) in reverse order and the
\* others as they were, and the same route for (j, i) as for (i, j), also
\* when the range is a prefix or a suffix.
C14_ReversionReverses ==
    [][(k_call'.op = "_sample" /\ kernel.kind = "reversion")
       => LET lo == Min(k_call'.i, k_call'.j)
              hi == Max(k_call'.i, k_call'.j)
          IN  /\ Len(k_new_route') = Len(k_route)
              /\ \A p \in 0..(Len(k_route) - 1) :
                    At(k_new_route', p) =
                        IF lo <= p /\ p <= hi THEN At(k_route, lo + hi - p) ELSE At(k_route, p)
              /\ k_new_route' = Reversion_sample_heap(k_route, k_call'.j, k_call'.i).new]_vars

\* a prefix has been reversed, called with the larger position first
C14_Witness ==
    /\ k_call.op = "_sample"
    /\ kernel.kind = "reversion"
    /\ k_call.i = 2
    /\ k_call.j = 0
    /\ k_route = <<3, 1, 0, 2>>
    /\ k_new_route = <<0, 1, 3, 2>>

\* C15: for any positions i, j of a route, SwapKernel._sample returns a
\* route that has the cities of positions i and j exchanged and every other
\* position as in the input, and the caller's route is what it was.
C15_SwapExchanges ==
    [][(k_call'.op = "_sample" /\ kernel.kind = "swap")
       => /\ k_route' = k_route
          /\ Len(k_new_route') = Len(k_route)
          /\ \A p \in 0..(Len(k_route) - 1) :
                At(k_new_route', p) =
                    IF p = k_call'.i THEN At(k_route, k_call'.j)
                    ELSE IF p = k_call'.j THEN At(k_route, k_call'.i)
                    ELSE At(k_route, p)]_vars

\* the first and the last city of a 4-city route have been exchanged
C15_Witness ==
    /\ k_call.op = "_sample"
    /\ kernel.kind = "swap"
    /\ k_call.i = 0
    /\ k_call.j = 3
    /\ k_route = <<2, 0, 1, 3>>
    /\ k_new_route = <<3, 0, 1, 2>>

\* l turned left by r positions
Rotation(l, r) == [p \in 1..Len(l) |-> l[((p - 1 + r) % Len(l)) + 1]]

\* C16: for a route of 3 or more cities, what RandomWalkKernel.sample
\* returns differs from the input, starts with the same city, and is no
\* cyclic rotation of the input.
C16_RandomWalkMoves ==
    [][(/\ k_call'.op = "sample"
        /\ k_call'.outcome = "returned"
        /\ Mover(kernel, k_call'.u).kind = "random_walk"
        /\ Len(k_route) >= 3)
       => /\ k_new_route' # k_route
          /\ At(k_new_route', 0) = At(k_route, 0)
          /\ \A r \in 0..(Len(k_route) - 1) : k_new_route' # Rotation(k_route, r)]_vars

\* a random walk has returned a 4-city route that keeps only its first city
\* in place
C16_Witness ==
    /\ k_call.op = "sample"
    /\ k_call.outcome = "returned"
    /\ kernel.kind = "random_walk"
    /\ k_route = <<2, 0, 1, 3>>
    /\ k_new_route = <<2, 3, 0, 1>>

\* C17: a sample or _sample call of any kernel leaves the list inside the
\* input Route as it was and, on a mixing kernel, probs, kernels and
\* _cumsum_p; it draws from no generator but the sampled kernel's own and,
\* on a mixing kernel, the selected sub-kernel's (_sample draws from none).
C17_SampleFrame ==
    [][(k_call'.op \in {"sample", "_sample"} /\ k_call'.outcome = "returned")
       => /\ k_route' = k_route
          /\ kernel' = kernel
          /\ k_call'.drew =
                IF k_call'.op = "_sample" THEN {}
                ELSE IF kernel.kind = "mixing"
                THEN {"kernel", SubGen[kernel.rngs[Mixing_choose_kernel(kernel, k_call'.u)]]}
                ELSE {"kernel"}]_vars

\* the mixing kernel of the test suite has sampled through its insertion
\* kernel, the third it was given, and returned a changed route
C17_Witness ==
    /\ kernel = MixingTest
    /\ k_call.op = "sample"
    /\ k_call.outcome = "returned"
    /\ k_call.drew = {"kernel", "sub3"}
    /\ Len(k_route) = MaxLen
    /\ k_new_route # k_route

\* C18: sample of a swap, reversion, insertion or random-walk kernel on a
\* route of fewer than 2 cities ends in an error: it does not return a
\* route and it does not run forever.
C18_ShortRouteRaises ==
    (/\ k_call.op = "sample"
     /\ kernel.kind \in {"swap", "reversion", "insertion", "random_walk"}
     /\ Len(k_route) < 2)
    => k_call.outcome = "error"

\* C19: an engine that was constructed, on any city set and with any
\* kernel, never raises an error inside run(): a call is in its loop or has
\* returned.
C19_NoErrorAfterConstruction ==
    run.pc \in {"idle", "loop", "done"}

\* C20: for a route of N cities, total_distance and the legacy dist_route
\* return the sum over k = 0..N-1 of dist[route[k], route[(k+1) mod N]]:
\* one term for each consecutive pair and one for the edge from the last
\* city back to the first.
C20_CyclicSum ==
    k_call.op \in {"total_distance", "dist_route"} =>
        LET n == Len(k_route)
            dist == cities.dist_matrix
            upto[k \in 0..n] ==
                IF k = 0 THEN 0
                ELSE upto[k - 1] + dist[At(k_route, k - 1), At(k_route, k % n)]
        IN  k_call.val = upto[n]

\* the cost 16 of the identity tour of the rectangle, whose closing edge is 5
\* long
C20_Witness ==
    /\ k_call.op = "total_distance"
    /\ cities = Cities(Rectangle)
    /\ k_route = <<0, 1, 2, 3>>
    /\ k_call.val = 16
    /\ cities.dist_matrix[3, 0] = 5

\* C21: the temperatures of the schedules being non-negative, the log
\* acceptance probability of every iteration is <= 0, the one computed and
\* every one recorded, so every exp(log_accept_prob) stored in accept_prob
\* is in [0, 1].
C21_LogAcceptProbNonPositive ==
    /\ \A k \in 1..MaxIter :
          \A schedule \in Schedules : RatLeq(Int2Rat(0), Temperature(schedule, k))
    /\ run.k >= 1 => RatLeq(run.log_accept_prob, Int2Rat(0))
    /\ \A i \in 1..Len(log_acceptance_probs) : RatLeq(log_acceptance_probs[i], Int2Rat(0))
    /\ Len(accept_prob) = Len(log_acceptance_probs)
    /\ \A i \in 1..Len(accept_prob) :
          /\ accept_prob[i] = Exp(log_acceptance_probs[i])
          /\ RatLeq(accept_prob[i].exp, Int2Rat(0))

\* the proxy has recorded a probability of 1 and one below 1
C21_Witness ==
    /\ \E i \in 1..Len(accept_prob) : RatEq(accept_prob[i].exp, Int2Rat(0))
    /\ \E i \in 1..Len(accept_prob) : RatLess(accept_prob[i].exp, Int2Rat(0))

\* C22: in the legacy engine the route stored with the best value is the
\* accepted candidate that has that value: after run(), best_value equals
\* dist_route(best_route).
C22_LegacyBestRouteHasBestValue ==
    (legacy.pc = "done" /\ legacy.best_route.value # Inf) =>
        RatEq(legacy.best_route.value, Legacy_dist_route(legacy, legacy.best_route.route))

\* C23: for a route that is a permutation of N >= 3 cities, whatever its
\* first city, the legacy RandomWalkKernelTSP.sample returns a permutation
\* of the same cities.
C23_LegacyRandomWalkPermutes ==
    (/\ k_call.op = "sample"
     /\ kernel.kind = "random_walk"
     /\ IsPermutation(k_route, Len(k_route)))
    => IsPermutation(k_new_route, Len(k_route))

\* C24: for positions i < j < N-1 the legacy InsertionKernelTSP._sample
\* puts the city of position i directly before the city that was at
\* position j of the input.
C24_LegacyInsertionBeforeJ ==
    (/\ k_call.op = "_sample"
     /\ kernel.kind = "insertion"
     /\ k_call.i < k_call.j
     /\ k_call.j < Len(k_route) - 1)
    => /\ At(k_new_route, k_call.j - 1) = At(k_route, k_call.i)
       /\ At(k_new_route, k_call.j) = At(k_route, k_call.j)

\* C25: a second run() on the same legacy engine starts from the identity
\* route at iteration index 0 with the best record, the accepted-move
\* counter and the recorded series cleared: they hold what this call alone
\* has produced.
C25_LegacySecondRunResets ==
    (legacy.pc \in {"loop", "done"} /\ legacy.runs >= 2) =>
        LET done == legacy.k - legacy.first_k
        IN  /\ legacy.first_k = 0
            /\ legacy.first_route = [p \in 1..legacy.len_route |-> p - 1]
            /\ Len(legacy.values) = 1 + done
            /\ Len(legacy.log_accept_prob) = done
            /\ Len(legacy.acceptance_ratio) = done
            /\ legacy.n_accept <= done
            /\ \E i \in 1..Len(legacy.values) :
                  RatEq(legacy.best_route.value, legacy.values[i])

\* C26: constructing the legacy engine and running it leaves every entry
\* of the caller's distance matrix as it was passed in.
C26_LegacyCallerMatrixKept ==
    legacy.pc # "none" =>
        \A e \in DOMAIN legacy.given : RatEq(legacy.caller[e], legacy.given[e])

C28_KernelGeneratorPrivate ==
    \A g \in run.uniform_rng : g # "kernel"

\* C29: during a run() with a swap, reversion, insertion, random-walk or
\* mixing kernel on at least 3 cities the city at position 0 stays city 0:
\* every route the kernel can return for the current route, the proposed
\* route, the current route and the best route all begin with city 0.
C29_FirstCityFixed ==
    (run.pc \in {"loop", "done"} /\ Len(run.current_route) >= 3) =>
        /\ At(run.current_route, 0) = 0
        /\ At(run.best_route, 0) = 0
        /\ run.k >= 1 => At(run.new_route, 0) = 0
        /\ \A r \in Kernel_outputs(kernel, run.current_route) : At(r, 0) = 0

\* a run whose current and best routes have both left the identity route
C29_Witness ==
    /\ run.pc = "loop"
    /\ run.k >= 2
    /\ run.current_route # Identity
    /\ run.best_route # Identity
    /\ run.best_route # run.current_route
    /\ At(run.current_route, 0) = 0

\* C30: the first to_jl() call on a wrapper runs _to_jl_impl once and stores
\* the object it returns, which is not None; every later to_jl() call on
\* that wrapper returns that same object and does not run _to_jl_impl
\* again, whatever to_jl() calls are made in between.
C30_ToJlCached ==
    /\ [][jl'.calls = jl.calls + 1 =>
            /\ \A w \in Wrappers :
                  jl.obj[w] # JlNone =>
                      /\ jl'.obj[w] = jl.obj[w]
                      /\ jl'.impl_calls[w] = jl.impl_calls[w]
            /\ jl'.was # JlNone =>
                  /\ ~jl'.raised
                  /\ jl'.ret = jl'.was
                  /\ jl'.obj = jl.obj
                  /\ jl'.impl_calls = jl.impl_calls
            /\ (jl'.was = JlNone /\ ~jl'.raised) =>
                  /\ jl'.impl_calls[jl'.w] = jl.impl_calls[jl'.w] + 1
                  /\ jl'.ret # JlNone
                  /\ jl'.ret = jl'.obj[jl'.w]
                  /\ jl'.ret >= jl.next]_vars
    /\ [](jl.pc = "built" =>
            \A w \in Wrappers :
                /\ jl.impl_returns[w] <= 1
                /\ jl.obj[w] # JlNone <=> jl.impl_returns[w] = 1
                /\ jl.first[w] = jl.last[w]
                /\ jl.first[w] = jl.obj[w]
                /\ \A v \in Wrappers :
                      (v # w /\ jl.obj[w] # JlNone) => jl.obj[v] # jl.obj[w])

\* a third to_jl() call on the engine returns what the first one stored,
\* the proxy having been converted in between
C30_Witness ==
    /\ jl.pc = "built"
    /\ jl.calls >= 3
    /\ jl.w = "sa"
    /\ jl.was # JlNone
    /\ jl.ret = jl.first["sa"]
    /\ jl.impl_calls["sa"] = 1
    /\ jl.obj["proxy"] # JlNone

====
